---- MODULE Spec2Model ----
(***************************************************************************)
(* lobbyutil: the extractor (src/bin/walk.rs over src/lib.rs) turns a      *)
(* decoded level into a label -> position map; the renderer                *)
(* (src/bin/draw.rs) draws that map, graph edges and a path overlay onto   *)
(* the canvas.                                                             *)
(*                                                                         *)
(* A Rust str is modelled as the sequence of its UTF-8 bytes, so that the  *)
(* comparison of two strs is the bytewise lexicographic one the code uses. *)
(***************************************************************************)
EXTENDS Integers, Sequences, FiniteSets

VARIABLES
    pc,             \* position of the running program
    panic,          \* "" or the message of the panic that aborted the run
    v,              \* conv_vert: the token handed in
    verts,          \* conv_vert: the token -> vertex resolutions of the last step
    root,           \* walk: the decoded element tree
    mp,             \* walk: the rooms of the loaded map
    words_empty,    \* walk: whether the alphabet's word iterator starts with the empty word
    queue,          \* walk: the queue of the element iterator
    start_room,     \* walk: index of the start room in mp
    default_spawn,  \* walk: the default spawn entity
    chs,            \* walk: the sorted chapter anchors
    wps,            \* walk: the sorted warp anchors
    i,              \* walk: index of the running insertion loop
    nodes,          \* walk: the label -> position map
    stdout,         \* walk: the printed text
    itxt,           \* the text chunk of the image walk writes and draw reads, or None
    map,            \* draw: the label -> position map read from the image
    json_graph,     \* draw: the graph option, or None
    hyphen_sep,     \* draw: the path option, or None
    todo,           \* draw: what the running loop has still to visit
    canvas,         \* draw: the draw calls made on the pixmap, in order
    output          \* draw: the image written, or None

convVars == <<v, verts>>
walkIn == <<root, mp, words_empty>>
walkVars == <<root, mp, words_empty, queue, start_room, default_spawn, chs, wps, i, nodes,
              stdout, itxt>>
drawIn == <<json_graph, hyphen_sep>>
drawVars == <<map, json_graph, hyphen_sep, todo, canvas, output>>
vars == <<pc, panic, v, verts, root, mp, words_empty, queue, start_room, default_spawn,
          chs, wps, i, nodes, stdout, itxt, map, json_graph, hyphen_sep, todo, canvas,
          output>>

-----------------------------------------------------------------------------
(* Strings *)

\* Option: None is the empty sequence, Some(x) the sequence of x alone
None == <<>>
Some(x) == <<x>>

\* one-character strs, by their UTF-8 bytes
ch(b) == <<b>>
SPACE == ch(32)
HYPHEN == ch(45)
SLASH == ch(47)
DIGIT0 == ch(48)
DIGIT1 == ch(49)
DIGIT5 == ch(53)
DIGIT9 == ch(57)
COLON == ch(58)
AT == ch(64)
UPPER_A == ch(65)
UPPER_B == ch(66)
UPPER_Z == ch(90)
LOWER_A == ch(97)
\* U+21BA, the spawn label, and U+2665, the door label
SPAWN == <<226, 134, 186>>
DOOR == <<226, 153, 165>>

\* str::cmp: bytewise lexicographic
RECURSIVE str_cmp(_, _)
str_cmp(a, b) ==
    IF a = <<>> /\ b = <<>> THEN "Equal"
    ELSE IF a = <<>> THEN "Less"
    ELSE IF b = <<>> THEN "Greater"
    ELSE IF a[1] < b[1] THEN "Less"
    ELSE IF a[1] > b[1] THEN "Greater"
    ELSE str_cmp(Tail(a), Tail(b))

str_lt(a, b) == str_cmp(a, b) = "Less"
str_le(a, b) == str_cmp(a, b) # "Greater"

\* all concatenations of at most n elements of cs
RECURSIVE Words(_, _)
Words(cs, n) ==
    IF n = 0 THEN {<<>>}
    ELSE LET W == Words(cs, n - 1) IN W \cup {w \o c : w \in W, c \in cs}

-----------------------------------------------------------------------------
(* lib.rs: the queries over the loaded map *)

PLAYER == "player"
WARP == "CollabUtils2/LobbyMapWarp"
CHAPTER == "CollabUtils2/ChapterPanelTrigger"
HEART_DOOR == "CollabUtils2/MiniHeartDoor"

\* attribute values: a string, or a value of another type
Str(t) == [ty |-> "str", val |-> t]
NonStr == [ty |-> "int", val |-> <<>>]

Ok(x) == [ok |-> TRUE, v |-> x]
Err == [ok |-> FALSE, v |-> <<>>]

Min(S) == CHOOSE x \in S : \A y \in S : x <= y

\* Room::entities_by_name
entities_by_name(room, n) == SelectSeq(room.entities, LAMBDA e : e.name = n)

\* an element of the map with the index of its room
WithRoom(es, r) == [j \in 1..Len(es) |-> [e |-> es[j], r |-> r]]

find_mini_heart_door(m) ==
    LET rs == {r \in 1..Len(m) : entities_by_name(m[r], HEART_DOOR) # <<>>}
    IN  IF rs = {} THEN None
        ELSE Some([e |-> Head(entities_by_name(m[Min(rs)], HEART_DOOR)), r |-> Min(rs)])

\* rooms.iter().flat_map(..filter(name)..).collect()
RECURSIVE collect(_, _, _, _)
collect(m, field, n, r) ==
    IF r > Len(m) THEN <<>>
    ELSE WithRoom(SelectSeq(m[r][field], LAMBDA t : t.name = n), r)
             \o collect(m, field, n, r + 1)

int_cmp(a, b) == IF a < b THEN "Less" ELSE IF a > b THEN "Greater" ELSE "Equal"

\* Ordering::then
then(o, p) == IF o = "Equal" THEN p ELSE o

sq_dist(e) == e.position[1] * e.position[1] + e.position[2] * e.position[2]

compare_no_room(m, a, b) ==
    IF a.e.id = None \/ b.e.id = None THEN "Panic"
    ELSE then(int_cmp(a.e.id[1], b.e.id[1]), int_cmp(sq_dist(a.e), sq_dist(b.e)))

\* the closure handed to sort_by; both ids are unwrapped before they are compared
compare(m, a, b) ==
    IF a.e.id = None \/ b.e.id = None THEN "Panic"
    ELSE then(then(int_cmp(a.e.id[1], b.e.id[1]), int_cmp(sq_dist(a.e), sq_dist(b.e))),
              str_cmp(m[a.r].name, m[b.r].name))

\* the insertion step of the stable sort: x moves left past what it is less than
RECURSIVE insert_tail(_, _, _)
insert_tail(m, s, x) ==
    IF s = <<>> THEN Ok(<<x>>)
    ELSE LET c == compare(m, x, s[Len(s)])
         IN  IF c = "Panic" THEN Err
             ELSE IF c = "Less"
                  THEN LET r == insert_tail(m, SubSeq(s, 1, Len(s) - 1), x)
                       IN  IF r.ok THEN Ok(Append(r.v, s[Len(s)])) ELSE Err
                  ELSE Ok(Append(s, x))

\* slice::sort_by on the first n elements: a slice shorter than two is returned
\* untouched, the closure is never called
RECURSIVE sort_by(_, _, _)
sort_by(m, s, n) ==
    IF n < 2 THEN Ok(SubSeq(s, 1, n))
    ELSE LET p == sort_by(m, s, n - 1)
         IN  IF p.ok THEN insert_tail(m, p.v, s[n]) ELSE Err

warps(m) == LET ws == collect(m, "entities", WARP, 1) IN sort_by(m, ws, Len(ws))

chapters(m) == LET cs == collect(m, "triggers", CHAPTER, 1) IN sort_by(m, cs, Len(cs))

\* VecDeque::extend: the children join the back of the queue
extend_front(q, children) == children \o q

extend(q, children) == q \o children

default_spwan_unfiltered(room) ==
    LET chain == entities_by_name(room, PLAYER)
    IN  IF chain = <<>> THEN Err ELSE Ok(chain[1])

default_spwan(room) ==
    LET flagged == SelectSeq(entities_by_name(room, PLAYER), LAMBDA e : e.isDefaultSpawn)
        chain == flagged \o entities_by_name(room, PLAYER)
    IN  IF chain = <<>> THEN Err ELSE Ok(chain[1])

\* the tail of start_level, from the value find_map gave (None when it gave none)
start_level(found, m) ==
    LET named == IF found = None THEN {} ELSE {r \in 1..Len(m) : m[r].name = found[1]}
    IN  IF named # {} THEN Ok(Min(named))
        ELSE IF Len(m) > 0 THEN Ok(1)
        ELSE Err

pos_in_room(pos, room) == <<pos[1] + room.bounds[1], pos[2] + room.bounds[2]>>

\* Map::bounds().position: the least corner over the rooms
map_bounds(m) == <<Min({m[r].bounds[1] : r \in 1..Len(m)}),
                   Min({m[r].bounds[2] : r \in 1..Len(m)})>>

pos_bounded(pos, m) == <<pos[1] - map_bounds(m)[1], pos[2] - map_bounds(m)[2]>>

-----------------------------------------------------------------------------
(* walk.rs: the extractor *)

ENGLISH == [k \in 1..26 |-> 64 + k]

\* the k-th non-empty word over the alphabet, shortest first
RECURSIVE word(_, _)
word(abc, k) ==
    IF k <= Len(abc) THEN <<abc[k]>>
    ELSE word(abc, (k - 1) \div Len(abc)) \o <<abc[((k - 1) % Len(abc)) + 1]>>

\* Alphabet::iter_words().nth(n)
iter_words_nth(abc, n, empty_first) ==
    IF empty_first THEN (IF n = 0 THEN <<>> ELSE word(abc, n)) ELSE word(abc, n + 1)

\* format!("{}", n)
RECURSIVE format(_)
format(n) == IF n < 10 THEN <<48 + n>> ELSE format(n \div 10) \o <<48 + (n % 10)>>

spawn_label == SPAWN
door_label == DOOR
chapter_label(k) == format(k + 1)
warp_label_fixed(k, empty_first) == iter_words_nth(ENGLISH, 1, empty_first)

warp_label(k, empty_first) == iter_words_nth(ENGLISH, k + 1, empty_first)

\* BTreeMap::insert
insert(bt, k, x) == [l \in DOMAIN bt \cup {k} |-> IF l = k THEN x ELSE bt[l]]

RECURSIVE btree_keys_descending(_)
btree_keys_descending(K) ==
    IF K = {} THEN <<>>
    ELSE LET k == CHOOSE x \in K : \A y \in K : str_le(y, x)
         IN  <<k>> \o btree_keys_descending(K \ {k})

\* the keys of a BTreeMap in its iteration order
RECURSIVE btree_keys(_)
btree_keys(K) ==
    IF K = {} THEN <<>>
    ELSE LET k == CHOOSE x \in K : \A y \in K : str_le(x, y)
         IN  <<k>> \o btree_keys(K \ {k})

\* serde_json::to_string of the map: its entries in key order
to_string(bt) == [j \in 1..Cardinality(DOMAIN bt) |->
                     <<btree_keys(DOMAIN bt)[j], bt[btree_keys(DOMAIN bt)[j]]>>]

Abort(msg) == pc' = "panicked" /\ panic' = msg

EmptyMap == [l \in {} |-> <<0, 0>>]

\* one next() of the element iterator under find_map
StartLevelNext ==
    /\ pc = "start_level"
    /\ queue # <<>>
    /\ LET e == root[Head(queue)]
       IN  /\ queue' = extend(Tail(queue), e.children)
           /\ IF e.StartLevel = None
              THEN UNCHANGED <<pc, panic, start_room>>
              ELSE IF e.StartLevel[1].ty # "str"
              THEN Abort("unwrap on Err") /\ UNCHANGED start_room
              ELSE IF start_level(Some(e.StartLevel[1].val), mp).ok
              THEN /\ start_room' = start_level(Some(e.StartLevel[1].val), mp).v
                   /\ pc' = "default_spwan"
                   /\ UNCHANGED panic
              ELSE Abort("no room!") /\ UNCHANGED start_room
    /\ UNCHANGED <<drawVars, convVars, walkIn, default_spawn, chs, wps, i, nodes, stdout, itxt>>

\* the iterator is exhausted: no element carries the attribute
StartLevelNotFound ==
    /\ pc = "start_level"
    /\ queue = <<>>
    /\ IF start_level(None, mp).ok
       THEN /\ start_room' = start_level(None, mp).v
            /\ pc' = "default_spwan"
            /\ UNCHANGED panic
       ELSE Abort("no room!") /\ UNCHANGED start_room
    /\ UNCHANGED <<drawVars, convVars, walkIn, queue, default_spawn, chs, wps, i, nodes, stdout, itxt>>

DefaultSpwan ==
    /\ pc = "default_spwan"
    /\ IF default_spwan(mp[start_room]).ok
       THEN /\ default_spawn' = Some(default_spwan(mp[start_room]).v)
            /\ pc' = "chapters"
            /\ UNCHANGED panic
       ELSE Abort("no spawn!") /\ UNCHANGED default_spawn
    /\ UNCHANGED <<drawVars, convVars, walkIn, queue, start_room, chs, wps, i, nodes, stdout, itxt>>

Chapters ==
    /\ pc = "chapters"
    /\ IF chapters(mp).ok
       THEN chs' = chapters(mp).v /\ pc' = "warps" /\ UNCHANGED panic
       ELSE Abort("unwrap on None") /\ UNCHANGED chs
    /\ UNCHANGED <<drawVars, convVars, walkIn, queue, start_room, default_spawn, wps, i, nodes,
                   stdout, itxt>>

Warps ==
    /\ pc = "warps"
    /\ IF warps(mp).ok
       THEN wps' = warps(mp).v /\ pc' = "insert_spawn" /\ UNCHANGED panic
       ELSE Abort("unwrap on None") /\ UNCHANGED wps
    /\ UNCHANGED <<drawVars, convVars, walkIn, queue, start_room, default_spawn, chs, i, nodes,
                   stdout, itxt>>

InsertSpawn ==
    /\ pc = "insert_spawn"
    /\ nodes' = insert(nodes, spawn_label,
                       pos_bounded(pos_in_room(default_spawn[1].position, mp[start_room]), mp))
    /\ i' = 0
    /\ pc' = "insert_chapters"
    /\ UNCHANGED <<panic, drawVars, convVars, walkIn, queue, start_room, default_spawn, chs, wps,
                   stdout, itxt>>

InsertChapter ==
    /\ pc = "insert_chapters"
    /\ IF i < Len(chs)
       THEN /\ nodes' = insert(nodes, chapter_label(i),
                          pos_bounded(pos_in_room(chs[i + 1].e.position, mp[chs[i + 1].r]), mp))
            /\ i' = i + 1
            /\ UNCHANGED pc
       ELSE /\ i' = 0
            /\ pc' = "insert_warps"
            /\ UNCHANGED nodes
    /\ UNCHANGED <<panic, drawVars, convVars, walkIn, queue, start_room, default_spawn, chs, wps,
                   stdout, itxt>>

InsertWarp ==
    /\ pc = "insert_warps"
    /\ IF i < Len(wps)
       THEN /\ nodes' = insert(nodes, warp_label(i, words_empty),
                          pos_bounded(pos_in_room(wps[i + 1].e.position, mp[wps[i + 1].r]), mp))
            /\ i' = i + 1
            /\ UNCHANGED pc
       ELSE /\ i' = 0
            /\ pc' = "insert_door"
            /\ UNCHANGED nodes
    /\ UNCHANGED <<panic, drawVars, convVars, walkIn, queue, start_room, default_spawn, chs, wps,
                   stdout, itxt>>

InsertDoor ==
    /\ pc = "insert_door"
    /\ LET d == find_mini_heart_door(mp)
       IN  IF d # None
           THEN nodes' = insert(nodes, door_label,
                                pos_bounded(pos_in_room(d[1].e.position, mp[d[1].r]), mp))
           ELSE UNCHANGED nodes
    /\ pc' = "print"
    /\ UNCHANGED <<panic, drawVars, convVars, walkIn, queue, start_room, default_spawn, chs, wps, i,
                   stdout, itxt>>

\* println!, and the rewrite of the image when both image paths are given
Emit ==
    /\ pc = "print"
    /\ stdout' = Some(to_string(nodes))
    /\ \E png \in BOOLEAN : itxt' = IF png THEN Some(to_string(nodes)) ELSE None
    /\ pc' = "walked"
    /\ UNCHANGED <<panic, drawVars, convVars, walkIn, queue, start_room, default_spawn, chs, wps, i,
                   nodes>>

WalkIdle ==
    /\ root = <<>>
    /\ mp = <<>>
    /\ words_empty = TRUE
    /\ queue = <<>>
    /\ start_room = 0
    /\ default_spawn = None
    /\ chs = <<>>
    /\ wps = <<>>
    /\ i = 0
    /\ nodes = EmptyMap
    /\ stdout = None
    /\ itxt = None

-----------------------------------------------------------------------------
(* draw.rs: token canonicalization *)

conv_vert_wide(t) ==
    IF str_lt(t, DIGIT0) THEN SPAWN
    ELSE IF str_le(COLON, t) /\ str_lt(t, LOWER_A) THEN DOOR
    ELSE t

conv_vert_inclusive(t) ==
    IF str_le(t, DIGIT0) THEN SPAWN
    ELSE IF str_le(COLON, t) /\ str_le(t, UPPER_A) THEN DOOR
    ELSE t

conv_vert(t) ==
    IF str_lt(t, DIGIT0) THEN SPAWN
    ELSE IF str_le(COLON, t) /\ str_lt(t, UPPER_A) THEN DOOR
    ELSE t

Max(S) == CHOOSE x \in S : \A y \in S : y <= x

\* serde_json::from_str of the draw list: a later entry of a key replaces an earlier
from_str(text) ==
    [k \in {text[j][1] : j \in 1..Len(text)} |->
        text[Max({j \in 1..Len(text) : text[j][1] = k})][2]]

\* the chars of a str; a lead byte from 224 on opens a char of three bytes
RECURSIVE chars(_)
chars(t) ==
    IF t = <<>> THEN <<>>
    ELSE IF t[1] >= 224 THEN <<SubSeq(t, 1, 3)>> \o chars(SubSeq(t, 4, Len(t)))
    ELSE <<SubSeq(t, 1, 1)>> \o chars(Tail(t))

\* the outline the scaler gives for the glyph of a char: no command for white space
scale_outline(c) == IF c = SPACE THEN <<>> ELSE <<"MoveTo", "LineTo", "LineTo", "Close">>

\* PathBuilder::finish gives no path for no command and for a lone MoveTo
convert_path(commands) == IF Len(commands) <= 1 THEN None ELSE Some(commands)

is_ascii_digit(c) == Len(c) = 1 /\ c[1] >= 48 /\ c[1] <= 57
is_ascii_alphabetic(c) == Len(c) = 1 /\ (c[1] \in 65..90 \/ c[1] \in 97..122)

fill_color(text) ==
    IF \A j \in 1..Len(chars(text)) : is_ascii_digit(chars(text)[j]) THEN <<255, 175, 195, 230>>
    ELSE IF \A j \in 1..Len(chars(text)) : is_ascii_alphabetic(chars(text)[j])
         THEN <<150, 175, 255, 230>>
    ELSE <<255, 240, 100, 230>>

\* fill_path and stroke_path of the glyphs 1..n of a label
glyph_calls(text, pos, n) ==
    [j \in 1..(2 * n) |->
        [op |-> IF j % 2 = 1 THEN "fill_path" ELSE "stroke_path", of |-> "label",
         text |-> text, at |-> pos, glyph |-> (j + 1) \div 2,
         color |-> IF j % 2 = 1 THEN fill_color(text) ELSE <<42, 12, 12, 250>>]]

\* the direction of a segment of no length normalizes to NaN, and a path with a
\* point that is not finite has no bounds: PathBuilder::finish gives no path
create_arrow(start, end) ==
    IF start = end THEN None ELSE Some([line |-> <<start, end>>])

\* the entries of the graph in iteration order: sources ascending, and the
\* destinations of each ascending
RECURSIVE edges_from(_, _)
edges_from(graph, srcs) ==
    IF srcs = <<>> THEN <<>>
    ELSE [j \in 1..Cardinality(graph[Head(srcs)]) |->
             <<Head(srcs), btree_keys(graph[Head(srcs)])[j]>>]
         \o edges_from(graph, Tail(srcs))

edges(graph) == edges_from(graph, btree_keys(DOMAIN graph))

\* str::split on a one-byte separator
RECURSIVE split(_, _)
split(t, sep) ==
    IF \A j \in 1..Len(t) : <<t[j]>> # sep THEN <<t>>
    ELSE LET k == Min({j \in 1..Len(t) : <<t[j]>> = sep})
         IN  <<SubSeq(t, 1, k - 1)>> \o split(SubSeq(t, k + 1, Len(t)), sep)

\* Itertools::tuple_windows in pairs
tuple_windows(ts) == [j \in 1..(Len(ts) - 1) |-> <<ts[j], ts[j + 1]>>]

\* the text chunk is found and parsed, the canvas is the background
ReadDrawList ==
    /\ pc = "read_draw_list"
    /\ IF itxt = None
       THEN Abort("unwrap on None") /\ UNCHANGED <<map, todo>>
       ELSE /\ map' = from_str(itxt[1])
            /\ todo' = btree_keys(DOMAIN from_str(itxt[1]))
            /\ pc' = "labels"
            /\ UNCHANGED panic
    /\ UNCHANGED <<convVars, walkVars, drawIn, canvas, output>>

\* one turn of the loop over the map: the glyphs of a label are filled and stroked
\* one by one, each path unwrapped
DrawLabel ==
    /\ pc = "labels"
    /\ todo # <<>>
    /\ LET text == Head(todo)
           glyphs == chars(text)
           gaps == {j \in 1..Len(glyphs) : convert_path(scale_outline(glyphs[j])) = None}
       IN  IF gaps = {}
           THEN /\ canvas' = canvas \o glyph_calls(text, map[text], Len(glyphs))
                /\ todo' = Tail(todo)
                /\ UNCHANGED <<pc, panic>>
           ELSE /\ canvas' = canvas \o glyph_calls(text, map[text], Min(gaps) - 1)
                /\ Abort("convert_path: unwrap on None")
                /\ UNCHANGED todo
    /\ UNCHANGED <<convVars, walkVars, map, drawIn, output>>

\* the loop over the map has ended; the graph, when given, is parsed
ParseGraph ==
    /\ pc = "labels"
    /\ todo = <<>>
    /\ todo' = IF json_graph = None THEN <<>> ELSE edges(json_graph[1])
    /\ pc' = "edges"
    /\ UNCHANGED <<panic, convVars, walkVars, map, drawIn, canvas, output>>

\* both ends are canonicalized, looked up in the map, and joined by an arrow
Arrow(of, color, width) ==
    LET start == conv_vert(Head(todo)[1])
        end == conv_vert(Head(todo)[2])
    IN  /\ verts' = <<[v |-> Head(todo)[1], vert |-> start],
                      [v |-> Head(todo)[2], vert |-> end]>>
        /\ IF start \notin DOMAIN map \/ end \notin DOMAIN map
           THEN Abort("map index: key not found") /\ UNCHANGED <<todo, canvas>>
           ELSE IF create_arrow(map[start], map[end]) = None
           THEN Abort("create_arrow: unwrap on None") /\ UNCHANGED <<todo, canvas>>
           ELSE /\ canvas' = Append(canvas,
                        [op |-> "stroke_path", of |-> of, text |-> <<start, end>>,
                         at |-> create_arrow(map[start], map[end])[1].line,
                         glyph |-> 0, color |-> color, width |-> width])
                /\ todo' = Tail(todo)
                /\ UNCHANGED <<pc, panic>>

DrawEdge ==
    /\ pc = "edges"
    /\ todo # <<>>
    /\ Arrow("edge", <<190, 190, 250, 180>>, 4)
    /\ UNCHANGED <<v, walkVars, map, drawIn, output>>

\* the loops over the graph have ended; the path, when given, is split
SplitPath ==
    /\ pc = "edges"
    /\ todo = <<>>
    /\ todo' = IF hyphen_sep = None THEN <<>> ELSE tuple_windows(split(hyphen_sep[1], HYPHEN))
    /\ pc' = "segments"
    /\ UNCHANGED <<panic, convVars, walkVars, map, drawIn, canvas, output>>

DrawSegment ==
    /\ pc = "segments"
    /\ todo # <<>>
    /\ Arrow("segment", <<120, 250, 120, 230>>, 6)
    /\ UNCHANGED <<v, walkVars, map, drawIn, output>>

WriteOutput ==
    /\ pc = "segments"
    /\ todo = <<>>
    /\ output' = Some(canvas)
    /\ pc' = "drawn"
    /\ UNCHANGED <<panic, convVars, walkVars, map, drawIn, todo, canvas>>

MaxTokenLen == 2
TokenChars == {SPACE, HYPHEN, SLASH, DIGIT0, DIGIT5, DIGIT9, COLON, AT,
               UPPER_A, UPPER_B, LOWER_A, SPAWN, DOOR}
Tokens(n) == Words(TokenChars, n)

-----------------------------------------------------------------------------
(* The inputs *)

LOWER_B == ch(98)

Entity(n, id, pos, flag) == [name |-> n, id |-> id, position |-> pos, isDefaultSpawn |-> flag]
Trigger(n, id, pos) == [name |-> n, id |-> id, position |-> pos]

RECURSIVE SeqOfSet(_)
SeqOfSet(S) == IF S = {} THEN <<>> ELSE <<Min(S)>> \o SeqOfSet(S \ {Min(S)})

\* the sequences over S of length at most n
SeqsUpTo(S, n) == UNION {[1..k -> S] : k \in 0..n}

\* room r of the rooms named names, which lie side by side
RoomAt(names, r, es, ts) ==
    [name |-> names[r], bounds |-> <<8 * (Len(names) - r), 8 * r>>,
     entities |-> es, triggers |-> ts]

\* m is a level of the rooms named names (at most two) that holds entities of E and
\* triggers of T, at most n of them in all
IsLevel(m, names, E, T, n) ==
    \/ /\ Len(names) = 0
       /\ m = <<>>
    \/ /\ Len(names) = 1
       /\ \E k \in {l \in [1..2 -> 0..n] : l[1] + l[2] <= n} :
          \E es \in [1..k[1] -> E], ts \in [1..k[2] -> T] :
              m = <<RoomAt(names, 1, es, ts)>>
    \/ /\ Len(names) = 2
       /\ \E k \in {l \in [1..4 -> 0..n] : l[1] + l[2] + l[3] + l[4] <= n} :
          \E es \in [1..k[1] -> E], ts \in [1..k[2] -> T],
             fs \in [1..k[3] -> E], us \in [1..k[4] -> T] :
              m = <<RoomAt(names, 1, es, ts), RoomAt(names, 2, fs, us)>>

\* t is an element tree of at most n elements with attribute values of values:
\* element 1 is the root, the parent of every other element precedes it, the
\* children of an element are in ascending order
IsTree(t, values, n) ==
    \E k \in 1..n :
    \E p \in {q \in [2..k -> 1..k] : \A c \in 2..k : q[c] < c}, a \in [1..k -> values] :
        t = [e \in 1..k |-> [StartLevel |-> a[e],
                             children |-> SeqOfSet({c \in 2..k : p[c] = e})]]

MaxElements == 4
StartValues == {None, Some(NonStr), Some(Str(LOWER_A)), Some(Str(LOWER_B))}
StartRooms == {<<>>, <<LOWER_A>>, <<LOWER_A, LOWER_B>>, <<LOWER_B, LOWER_A>>,
               <<LOWER_A, LOWER_A>>}

MaxPlayers == 4
SpawnKinds == {<<PLAYER, FALSE>>, <<PLAYER, TRUE>>, <<WARP, FALSE>>}
\* m is one room of at most n players and other entities; entity j of the room
\* has identifier j and stands at <<j, 0>>
IsSpawnRoom(m, n) ==
    \E k \in 0..n : \E ks \in [1..k -> SpawnKinds] :
        m = <<RoomAt(<<LOWER_A>>, 1,
                     [j \in 1..k |-> Entity(ks[j][1], Some(j), <<j, 0>>, ks[j][2])], <<>>)>>

MaxAnchors == 3
AnchorIds == {None, Some(1), Some(2)}
AnchorPositions == {<<0, 1>>, <<1, 0>>, <<1, 1>>}
WarpAnchors == {Entity(WARP, id, pos, FALSE) : id \in AnchorIds, pos \in AnchorPositions}
ChapterAnchors == {Trigger(CHAPTER, id, pos) : id \in AnchorIds, pos \in AnchorPositions}
\* two rooms, the second named before the first
SortRooms == <<LOWER_B, LOWER_A>>

MaxEntities == 5
WalkRooms == {<<>>, <<LOWER_A>>, <<LOWER_A, LOWER_B>>}
WalkEntities == {Entity(k, Some(1), <<1, 0>>, FALSE) : k \in {PLAYER, WARP, HEART_DOOR}}
WalkTriggers == {Trigger(CHAPTER, Some(1), <<0, 1>>)}
WalkValues == {None, Some(Str(LOWER_B))}

\* the labels of a draw list; the position of a label is fixed by the label
DrawLabels == {SPAWN, DIGIT1, DOOR, UPPER_B \o SPACE \o UPPER_B}
PosOf(l) == <<100 * Len(l), l[1]>>
GraphTokens == {HYPHEN, DIGIT1, UPPER_B, DOOR}
PathChars == {HYPHEN, DIGIT1, UPPER_B, COLON}
\* the labels walk gives: the two symbols, and the labels of the chapters and of the
\* warps 0..n under either start of the word iterator
AllocLabels(n) ==
    {spawn_label, door_label}
        \cup {chapter_label(k) : k \in 0..n}
        \cup {warp_label(k, e) : k \in 0..n, e \in BOOLEAN}
MaxLabels == 30
MaxDests == 1
MaxPathLen == 3
\* no graph, the graph of no source, or a graph of one source and at most n
\* destinations
IsGraph(g, n) ==
    \/ g = None
    \/ g = Some(EmptyMap)
    \/ \E src \in GraphTokens : \E dsts \in {D \in SUBSET GraphTokens : Cardinality(D) <= n} :
           g = Some([k \in {src} |-> dsts])

-----------------------------------------------------------------------------
(* The specifications *)

ConvIdle == v = <<>> /\ verts = <<>>

DrawIdle ==
    /\ map = EmptyMap
    /\ json_graph = None
    /\ hyphen_sep = None
    /\ todo = <<>>
    /\ canvas = <<>>
    /\ output = None

\* walk.rs main, from the decoded map on
Init ==
    /\ pc = "start_level"
    /\ panic = ""
    /\ ConvIdle
    /\ DrawIdle
    /\ IsTree(root, WalkValues, 1)
    /\ \E names \in WalkRooms : IsLevel(mp, names, WalkEntities, WalkTriggers, MaxEntities)
    /\ words_empty \in BOOLEAN
    /\ queue = <<1>>
    /\ start_room = 0
    /\ default_spawn = None
    /\ chs = <<>>
    /\ wps = <<>>
    /\ i = 0
    /\ nodes = EmptyMap
    /\ stdout = None
    /\ itxt = None

Next ==
    \/ StartLevelNext
    \/ StartLevelNotFound
    \/ DefaultSpwan
    \/ Chapters
    \/ Warps
    \/ InsertSpawn
    \/ InsertChapter
    \/ InsertWarp
    \/ InsertDoor
    \/ Emit

Spec == Init /\ [][Next]_vars

\* start_level over element trees and room lists
InitStart ==
    /\ pc = "start_level"
    /\ panic = ""
    /\ ConvIdle
    /\ DrawIdle
    /\ IsTree(root, StartValues, MaxElements)
    /\ \E names \in StartRooms : IsLevel(mp, names, {}, {}, 0)
    /\ words_empty = TRUE
    /\ queue = <<1>>
    /\ start_room = 0
    /\ default_spawn = None
    /\ chs = <<>>
    /\ wps = <<>>
    /\ i = 0
    /\ nodes = EmptyMap
    /\ stdout = None
    /\ itxt = None

NextStart == StartLevelNext \/ StartLevelNotFound

SpecStart == InitStart /\ [][NextStart]_vars

\* default_spwan over the rooms of players
InitSpawn ==
    /\ pc = "default_spwan"
    /\ panic = ""
    /\ ConvIdle
    /\ DrawIdle
    /\ root = <<>>
    /\ IsSpawnRoom(mp, MaxPlayers)
    /\ words_empty = TRUE
    /\ queue = <<>>
    /\ start_room = 1
    /\ default_spawn = None
    /\ chs = <<>>
    /\ wps = <<>>
    /\ i = 0
    /\ nodes = EmptyMap
    /\ stdout = None
    /\ itxt = None

NextSpawn == DefaultSpwan

SpecSpawn == InitSpawn /\ [][NextSpawn]_vars

\* chapters and warps over levels of anchors
InitSort ==
    /\ pc = "chapters"
    /\ panic = ""
    /\ ConvIdle
    /\ DrawIdle
    /\ root = <<>>
    /\ \/ IsLevel(mp, SortRooms, WarpAnchors, {}, MaxAnchors)
       \/ IsLevel(mp, SortRooms, {}, ChapterAnchors, MaxAnchors)
    /\ words_empty = TRUE
    /\ queue = <<>>
    /\ start_room = 1
    /\ default_spawn = None
    /\ chs = <<>>
    /\ wps = <<>>
    /\ i = 0
    /\ nodes = EmptyMap
    /\ stdout = None
    /\ itxt = None

NextSort == Chapters \/ Warps

SpecSort == InitSort /\ [][NextSort]_vars

\* draw.rs main, from the decoded image on
InitDraw ==
    /\ pc = "read_draw_list"
    /\ panic = ""
    /\ ConvIdle
    /\ root = <<>>
    /\ mp = <<>>
    /\ words_empty = TRUE
    /\ queue = <<>>
    /\ start_room = 0
    /\ default_spawn = None
    /\ chs = <<>>
    /\ wps = <<>>
    /\ i = 0
    /\ nodes = EmptyMap
    /\ stdout = None
    /\ \/ itxt = None
       \/ \E K \in SUBSET DrawLabels : itxt = Some(to_string([l \in K |-> PosOf(l)]))
    /\ map = EmptyMap
    /\ IsGraph(json_graph, MaxDests)
    /\ \/ hyphen_sep = None
       \/ \E t \in Words(PathChars, MaxPathLen) : hyphen_sep = Some(t)
    /\ todo = <<>>
    /\ canvas = <<>>
    /\ output = None

NextDraw ==
    \/ ReadDrawList
    \/ DrawLabel
    \/ ParseGraph
    \/ DrawEdge
    \/ SplitPath
    \/ DrawSegment
    \/ WriteOutput

SpecDraw == InitDraw /\ [][NextDraw]_vars

\* conv_vert over tokens
InitConv ==
    /\ pc = "conv_vert"
    /\ panic = ""
    /\ v \in Tokens(MaxTokenLen) \cup AllocLabels(MaxLabels)
    /\ verts = <<>>
    /\ WalkIdle
    /\ DrawIdle

ConvVert ==
    /\ pc = "conv_vert"
    /\ verts' = <<[v |-> v, vert |-> conv_vert(v)]>>
    /\ pc' = "resolved"
    /\ UNCHANGED <<panic, v, walkVars, drawVars>>

NextConv == ConvVert

SpecConv == InitConv /\ [][NextConv]_vars

-----------------------------------------------------------------------------
(* The claims *)

\* a is lexicographically less than b: a is a proper prefix of b, or they first
\* differ at a place where a holds the smaller byte
LexLess(a, b) ==
    \E k \in 1..Len(b) :
        /\ \A j \in 1..(k - 1) : j <= Len(a) /\ a[j] = b[j]
        /\ (k > Len(a) \/ a[k] < b[k])

RECURSIVE CountIn(_, _, _, _)
CountIn(m, field, n, r) ==
    IF r > Len(m) THEN 0
    ELSE Len(SelectSeq(m[r][field], LAMBDA t : t.name = n)) + CountIn(m, field, n, r + 1)

ChapterCount == CountIn(mp, "triggers", CHAPTER, 1)
WarpCount == CountIn(mp, "entities", WARP, 1)
DoorCount == IF CountIn(mp, "entities", HEART_DOOR, 1) > 0 THEN 1 ELSE 0

\* C1: on a level with c chapter anchors, w warp anchors and d door anchors the map
\* holds one entry per insertion made so far, hence 1 + c + w + d distinct keys when
\* extraction succeeds: no insertion overwrites an earlier entry.
C1_DistinctLabels ==
    /\ pc = "insert_chapters" => Cardinality(DOMAIN nodes) = 1 + i
    /\ pc = "insert_warps" => Cardinality(DOMAIN nodes) = 1 + ChapterCount + i
    /\ pc = "insert_door" => Cardinality(DOMAIN nodes) = 1 + ChapterCount + WarpCount
    /\ pc \in {"print", "walked"} =>
           Cardinality(DOMAIN nodes) = 1 + ChapterCount + WarpCount + DoorCount
    /\ pc = "walked" => Len(stdout[1]) = 1 + ChapterCount + WarpCount + DoorCount

C1_Witness ==
    /\ pc = "walked"
    /\ ChapterCount >= 1
    /\ WarpCount >= 2
    /\ DoorCount = 1

LacksId(field, n) ==
    \E r \in 1..Len(mp) : \E j \in 1..Len(mp[r][field]) :
        mp[r][field][j].name = n /\ mp[r][field][j].id = None

\* C2: a level with a chapter anchor or a warp anchor that lacks its identifier
\* never gets past the extraction of that kind: the run aborts, whatever the number
\* of anchors of the kind.
C2_MissingIdAborts ==
    /\ LacksId("triggers", CHAPTER) => pc \in {"chapters", "panicked"}
    /\ LacksId("entities", WARP) => pc \in {"chapters", "warps", "panicked"}

KeyOf(a) == <<a.e.id[1], sq_dist(a.e), mp[a.r].name>>
KeyLess(k, l) ==
    \/ k[1] < l[1]
    \/ k[1] = l[1] /\ k[2] < l[2]
    \/ k[1] = l[1] /\ k[2] = l[2] /\ LexLess(k[3], l[3])

\* C4 as claimed: no two distinct anchors of a returned list compare equal.
C4_NoTies ==
    /\ pc \in {"warps", "insert_spawn"} =>
           \A j, k \in 1..Len(chs) : j # k => compare(mp, chs[j], chs[k]) # "Equal"
    /\ pc = "insert_spawn" =>
           \A j, k \in 1..Len(wps) : j # k => compare(mp, wps[j], wps[k]) # "Equal"

SortedByKey(s) ==
    Len(s) >= 2 => \A j \in 1..(Len(s) - 1) : ~KeyLess(KeyOf(s[j + 1]), KeyOf(s[j]))
KeepsTraversalOrder(s, traversed) ==
    Len(s) >= 2 => \A x \in {s[j] : j \in 1..Len(s)} :
        SelectSeq(s, LAMBDA y : KeyOf(y) = KeyOf(x))
            = SelectSeq(traversed, LAMBDA y : KeyOf(y) = KeyOf(x))

\* C4 as amended: a returned list ascends by (identifier, squared distance, room
\* name); anchors of equal key stay in the order rooms and entities were traversed.
C4_SortedAndStable ==
    /\ pc \in {"warps", "insert_spawn"} =>
           /\ SortedByKey(chs)
           /\ KeepsTraversalOrder(chs, collect(mp, "triggers", CHAPTER, 1))
    /\ pc = "insert_spawn" =>
           /\ SortedByKey(wps)
           /\ KeepsTraversalOrder(wps, collect(mp, "entities", WARP, 1))

C4_Witness ==
    /\ pc = "insert_spawn"
    /\ \E j, k \in 1..Len(wps) :
           j < k /\ wps[j] # wps[k] /\ KeyOf(wps[j]) = KeyOf(wps[k])
    /\ wps # collect(mp, "entities", WARP, 1)

Expected(t) ==
    IF LexLess(t, DIGIT0) THEN SPAWN
    ELSE IF ~LexLess(t, COLON) /\ LexLess(t, UPPER_A) THEN DOOR
    ELSE t

\* C6: every token resolved is resolved to the spawn label when it is less than
\* "0", to the door label when it lies in [":", "A"), and to itself otherwise; "-"
\* gives the spawn label, ":" the door label, "5" and "B" themselves.
C6_Canonicalization ==
    \A j \in 1..Len(verts) :
        /\ verts[j].vert = Expected(verts[j].v)
        /\ verts[j].v = HYPHEN => verts[j].vert = SPAWN
        /\ verts[j].v = COLON => verts[j].vert = DOOR
        /\ verts[j].v \in {DIGIT5, UPPER_B} => verts[j].vert = verts[j].v

C6_Witness ==
    /\ pc = "resolved"
    /\ v = AT \o DIGIT0
    /\ verts[1].vert = DOOR

Carriers == {e \in 1..Len(root) : root[e].StartLevel # None}
ParentOf(c) == CHOOSE e \in 1..Len(root) : \E j \in 1..Len(root[e].children) :
                   root[e].children[j] = c
ChildPos(c) == CHOOSE j \in 1..Len(root[ParentOf(c)].children) :
                   root[ParentOf(c)].children[j] = c
RECURSIVE Depth(_)
Depth(e) == IF e = 1 THEN 0 ELSE 1 + Depth(ParentOf(e))
\* x comes before y level by level, left to right
RECURSIVE LevelBefore(_, _)
LevelBefore(x, y) ==
    /\ x # y
    /\ \/ Depth(x) < Depth(y)
       \/ /\ Depth(x) = Depth(y)
          /\ x # 1
          /\ IF ParentOf(x) = ParentOf(y) THEN ChildPos(x) < ChildPos(y)
             ELSE LevelBefore(ParentOf(x), ParentOf(y))
Shallowest == CHOOSE x \in Carriers : \A y \in Carriers \ {x} : LevelBefore(x, y)
Rooms(n) == {r \in 1..Len(mp) : mp[r].name = n}

Players == {j \in 1..Len(mp[1].entities) : mp[1].entities[j].name = PLAYER}
Flagged == {j \in Players : mp[1].entities[j].isDefaultSpawn}

\* C9: default_spwan returns the first flagged player entity of the room when there
\* is one, else the first player entity, and aborts in a room of no player entity.
C9_DefaultSpawn ==
    pc # "default_spwan" =>
        IF Flagged # {} THEN pc = "chapters" /\ default_spawn = Some(mp[1].entities[Min(Flagged)])
        ELSE IF Players # {} THEN pc = "chapters" /\ default_spawn = Some(mp[1].entities[Min(Players)])
        ELSE pc = "panicked"

C9_Witness ==
    /\ pc = "chapters"
    /\ \E j \in Players \ Flagged : \E k \in Flagged :
           j < k /\ default_spawn = Some(mp[1].entities[k])

\* C3 as claimed: a glyph that yields no path never aborts the run.
C3_GapSkipped == panic # "convert_path: unwrap on None"

GraphTokensOf(g) ==
    IF g = None THEN {} ELSE (DOMAIN g[1]) \cup UNION {g[1][k] : k \in DOMAIN g[1]}
PathTokensOf(h) ==
    IF h = None THEN {} ELSE {split(h[1], HYPHEN)[j] : j \in 1..Len(split(h[1], HYPHEN))}

\* C5 as claimed: an image is written only when every key of the graph and every
\* token of the path resolves to a label of the map.
C5_UnresolvedAborts ==
    output # None =>
        \A t \in GraphTokensOf(json_graph) \cup PathTokensOf(hyphen_sep) :
            Expected(t) \in DOMAIN map

Rank(of) == IF of = "label" THEN 1 ELSE IF of = "edge" THEN 2 ELSE 3
Calls(of) == {j \in 1..Len(canvas) : canvas[j].of = of}
EdgeCount(g) ==
    IF g = None THEN 0
    ELSE Cardinality({e \in (DOMAIN g[1]) \X GraphTokens : e[2] \in g[1][e[1]]})
HyphenCount(h) == IF h = None THEN 0 ELSE Cardinality({j \in 1..Len(h[1]) : <<h[1][j]>> = HYPHEN})

\* C7: the draw calls never step back from a later phase to an earlier one; labels
\* are drawn in ascending order; when an arrow is drawn every label of the map has
\* been drawn; when a segment of the path is drawn every edge of the graph has been
\* drawn; the image written holds every draw call, the segments of the path included.
C7_DrawOrder ==
    /\ \A j, k \in 1..Len(canvas) : j < k => Rank(canvas[j].of) <= Rank(canvas[k].of)
    /\ \A j, k \in Calls("label") : j < k => ~LexLess(canvas[k].text, canvas[j].text)
    /\ Calls("edge") \cup Calls("segment") # {} =>
           \A l \in DOMAIN map : \E j \in Calls("label") : canvas[j].text = l
    /\ Calls("segment") # {} => Cardinality(Calls("edge")) = EdgeCount(json_graph)
    /\ output # None =>
           /\ output = Some(canvas)
           /\ pc = "drawn"
           /\ Cardinality(Calls("edge")) = EdgeCount(json_graph)
           /\ Cardinality(Calls("segment")) = HyphenCount(hyphen_sep)

C7_Witness ==
    /\ pc = "drawn"
    /\ output = Some(canvas)
    /\ \E j, k \in Calls("label") : canvas[j].text # canvas[k].text
    /\ Calls("edge") # {}
    /\ Calls("segment") # {}

\* C10: a label walk gives resolves to itself, and resolving what was resolved
\* changes nothing.
C10_LabelsFixed ==
    \A j \in 1..Len(verts) :
        /\ verts[j].v \in AllocLabels(MaxLabels) => verts[j].vert = verts[j].v
        /\ conv_vert(verts[j].vert) = verts[j].vert

C10_Witness ==
    /\ pc = "resolved"
    /\ v = warp_label(MaxLabels, FALSE)
    /\ Len(v) = 2
    /\ verts[1].vert = v

====
